---- MODULE Spec2Model ----
(***************************************************************************)
(* Truemailer: the email verifier of main.py (quota ledger, block list     *)
(* aggregation, classification), with the stand-alone helper scripts       *)
(* validation_wrapper.py and updater.py.                                   *)
(*                                                                         *)
(* Strings are TLA+ strings; a character is a string of length 1.          *)
(***************************************************************************)
EXTENDS Integers, Sequences, FiniteSets, TLC

(***************************************************************************)
(* String helpers: the Python str methods the code uses.                   *)
(***************************************************************************)

\* The characters of the model in code-point order (what sorted() compares).
Alphabet == " \"#',-.0123456789@ABCDEFGHIJKLMNOPQRSTUVWXYZ\\abcdefghijklmnopqrstuvwxyz"

CharAt(s, i) == SubSeq(s, i, i)

Tail1(s) == SubSeq(s, 2, Len(s))

\* The characters of a string, as a set
CharsOf(s) == {CharAt(s, i) : i \in 1..Len(s)}

CodeOf == [c \in CharsOf(Alphabet) |->
              CHOOSE i \in 1..Len(Alphabet) : CharAt(Alphabet, i) = c]

CharCode(c) == CodeOf[c]

LowerLetters == "abcdefghijklmnopqrstuvwxyz"

UpperLetters == "ABCDEFGHIJKLMNOPQRSTUVWXYZ"

Digits == "0123456789"

LowerSet == CharsOf(LowerLetters)

UpperSet == CharsOf(UpperLetters)

DigitSet == CharsOf(Digits)

InStr(c, s) == \E i \in 1..Len(s) : CharAt(s, i) = c

\* str.isspace for one character
IsSpace(c) == c = " "

\* str.isdigit / str.isalpha for one character
IsDigit(c) == c \in DigitSet

IsAlphaChar(c) == c \in LowerSet \/ c \in UpperSet

LowerOf == [c \in UpperSet |->
               CharAt(LowerLetters,
                      CHOOSE k \in 1..Len(UpperLetters) : CharAt(UpperLetters, k) = c)]

\* str.lower for one character
LowerChar(c) == IF c \in UpperSet THEN LowerOf[c] ELSE c

RECURSIVE Lower(_)
\* str.lower()
Lower(s) == IF s = "" THEN "" ELSE LowerChar(CharAt(s, 1)) \o Lower(Tail1(s))

\* str.strip(chars): drop leading and trailing characters that are in chars
StripChars(s, chars) ==
    LET keep == {i \in 1..Len(s) : ~InStr(CharAt(s, i), chars)}
    IN  IF keep = {} THEN ""
        ELSE LET lo == CHOOSE i \in keep : \A j \in keep : i <= j
                 hi == CHOOSE i \in keep : \A j \in keep : i >= j
             IN  SubSeq(s, lo, hi)

\* str.strip(): drop leading and trailing whitespace
Strip(s) == StripChars(s, " ")

\* s.count(c) for a character c
CountChar(s, c) == Cardinality({i \in 1..Len(s) : CharAt(s, i) = c})

\* s.startswith(p)
StartsWith(s, p) == Len(p) <= Len(s) /\ SubSeq(s, 1, Len(p)) = p

\* s.endswith(p)
EndsWith(s, p) == Len(p) <= Len(s) /\ SubSeq(s, Len(s) - Len(p) + 1, Len(s)) = p

\* p in s (substring test)
Contains(s, p) ==
    \E i \in 1..(Len(s) - Len(p) + 1) : SubSeq(s, i, i + Len(p) - 1) = p

\* s.split("@", 1)[1] when s holds an "@": the text after the first "@"
AfterFirstAt(s) ==
    LET i == CHOOSE k \in 1..Len(s) :
                 CharAt(s, k) = "@" /\ \A j \in 1..(k - 1) : CharAt(s, j) # "@"
    IN  SubSeq(s, i + 1, Len(s))

\* s.split("@", 1)[-1]: the text after the first "@", or s itself without one
SplitAtLast1(s) == IF InStr("@", s) THEN AfterFirstAt(s) ELSE s

\* s.split("@")[-1]: the text after the last "@", or s itself without one
AfterLastAt(s) ==
    IF ~InStr("@", s) THEN s
    ELSE LET i == CHOOSE k \in 1..Len(s) :
                      CharAt(s, k) = "@" /\ \A j \in (k + 1)..Len(s) : CharAt(s, j) # "@"
         IN  SubSeq(s, i + 1, Len(s))

\* s.split("."): the labels of s, as a set of (start, end) index pairs
LabelBounds(s) ==
    LET dots == {i \in 1..Len(s) : CharAt(s, i) = "."}
        cuts == dots \cup {0, Len(s) + 1}
    IN  {<<a + 1, b - 1>> : <<a, b>> \in
            {p \in cuts \X cuts : p[1] < p[2] /\ \A d \in dots : ~(p[1] < d /\ d < p[2])}}

(***************************************************************************)
(* Configuration of main.py.                                               *)
(***************************************************************************)

TRUSTED_PROVIDERS ==
    {"gmail.com", "googlemail.com", "outlook.com", "hotmail.com",
     "yahoo.com", "icloud.com", "protonmail.com", "zoho.com",
     "mail.com", "yandex.com", "aol.com", "gmx.com", "fastmail.com",
     "tutanota.com"}

SUSPECT_PATTERNS ==
    {"temp", "tempmail", "mailinator", "inbox", "trash", "shark",
     "guerrilla", "getnada", "spam", "fake", "free", "gta5", "forex",
     "yopmail", "dispostable", "mintemail"}

\* EMAIL_RE: the {1,64} and {1,255} repetition limits
LocalMax == 64

DomainMax == 255

\* suspicious_by_pattern: "digits >= 4" and "len(lbl) <= 2"
DigitThreshold == 4

ShortLabelLen == 2

(***************************************************************************)
(* Heuristics and checks of main.py.                                       *)
(***************************************************************************)

\* EMAIL_RE = ^[^@\s]{1,64}@[^@\s]{1,255}$ matched against email
is_valid_email_syntax(email) ==
    /\ CountChar(email, "@") = 1
    /\ \A i \in 1..Len(email) : ~IsSpace(CharAt(email, i))
    /\ LET dom == AfterFirstAt(email)
           loc == Len(email) - Len(dom) - 1
       IN  /\ 1 <= loc /\ loc <= LocalMax
           /\ 1 <= Len(dom) /\ Len(dom) <= DomainMax

domain_from_email(email) == Strip(Lower(SplitAtLast1(email)))

suspicious_by_pattern(domain) ==
    LET d == Lower(domain)
    IN  \/ \E p \in SUSPECT_PATTERNS : Contains(d, p)
        \/ Cardinality({i \in 1..Len(d) : IsDigit(CharAt(d, i))}) >= DigitThreshold
        \/ \E b \in LabelBounds(d) :
               /\ b[2] - b[1] + 1 <= ShortLabelLen
               /\ b[2] >= b[1]
               /\ \A i \in b[1]..b[2] : IsAlphaChar(CharAt(d, i))

\* Mutant: the block set is not consulted
is_disposable_domain_heuristic_only(domain, blockset) ==
    suspicious_by_pattern(Strip(Lower(domain)))

\* is_disposable_domain, reading the block set under BLOCKSET_LOCK
is_disposable_domain(domain, blockset) ==
    LET d == Strip(Lower(domain))
    IN  d \in blockset \/ suspicious_by_pattern(d)

\* has_mx: what dns.resolver.resolve does decides; every exception is False
DnsOutcomes == {"answer", "no_answer", "timeout"}

has_mx(outcome) == outcome = "answer"

\* A field a returned dict does not hold
Absent == "<absent>"

\* Mutant: the disposable check runs before the trusted-provider check
verify_email_core_block_first(rawEmail, blockset, outcome) ==
    LET email  == Strip(rawEmail)
        domain == domain_from_email(email)
        mx_ok  == has_mx(outcome)
    IN  IF email = ""
        THEN [email |-> email, valid |-> FALSE, reason |-> "empty",
              disposable |-> Absent, mx |-> Absent, provider |-> Absent]
        ELSE IF ~is_valid_email_syntax(email)
        THEN [email |-> email, valid |-> FALSE, reason |-> "invalid_syntax",
              disposable |-> Absent, mx |-> Absent, provider |-> Absent]
        ELSE IF is_disposable_domain(domain, blockset)
        THEN [email |-> email, valid |-> FALSE, reason |-> "disposable_domain",
              disposable |-> TRUE, mx |-> mx_ok, provider |-> domain]
        ELSE IF domain \in TRUSTED_PROVIDERS
        THEN [email |-> email, valid |-> TRUE, reason |-> "trusted_provider",
              disposable |-> FALSE, mx |-> mx_ok, provider |-> domain]
        ELSE IF ~mx_ok
        THEN [email |-> email, valid |-> FALSE, reason |-> "no_mx",
              disposable |-> FALSE, mx |-> FALSE, provider |-> domain]
        ELSE [email |-> email, valid |-> TRUE, reason |-> "valid",
              disposable |-> FALSE, mx |-> TRUE, provider |-> domain]

\* verify_email_core, given the block set it reads and what DNS answers
verify_email_core(rawEmail, blockset, outcome) ==
    LET email  == Strip(rawEmail)
        domain == domain_from_email(email)
        mx_ok  == has_mx(outcome)
    IN  IF email = ""
        THEN [email |-> email, valid |-> FALSE, reason |-> "empty",
              disposable |-> Absent, mx |-> Absent, provider |-> Absent]
        ELSE IF ~is_valid_email_syntax(email)
        THEN [email |-> email, valid |-> FALSE, reason |-> "invalid_syntax",
              disposable |-> Absent, mx |-> Absent, provider |-> Absent]
        ELSE IF domain \in TRUSTED_PROVIDERS
        THEN [email |-> email, valid |-> TRUE, reason |-> "trusted_provider",
              disposable |-> FALSE, mx |-> mx_ok, provider |-> domain]
        ELSE IF is_disposable_domain(domain, blockset)
        THEN [email |-> email, valid |-> FALSE, reason |-> "disposable_domain",
              disposable |-> TRUE, mx |-> mx_ok, provider |-> domain]
        ELSE IF ~mx_ok
        THEN [email |-> email, valid |-> FALSE, reason |-> "no_mx",
              disposable |-> FALSE, mx |-> FALSE, provider |-> domain]
        ELSE [email |-> email, valid |-> TRUE, reason |-> "valid",
              disposable |-> FALSE, mx |-> TRUE, provider |-> domain]

\* Whether verify_email_core reaches a has_mx call for this input
calls_has_mx(rawEmail) ==
    LET email == Strip(rawEmail)
    IN  email # "" /\ is_valid_email_syntax(email)

(***************************************************************************)
(* email_checker.py                                                        *)
(***************************************************************************)

\* is_allowed(email), with the sets loaded from allowlist.json and blocklist.json
is_allowed(email, allowlist, blocklist) ==
    LET domain == Strip(Lower(AfterLastAt(email)))
    IN  IF \E a \in allowlist : EndsWith(domain, a) THEN TRUE
        ELSE IF domain \in blocklist THEN FALSE
        ELSE TRUE

(***************************************************************************)
(* validation_wrapper.py                                                   *)
(***************************************************************************)

WHITELISTED_DOMAINS ==
    {"gec.ac.in", "iitb.ac.in", "bits-pilani.ac.in",
     "gmail.com", "yahoo.com", "outlook.com", "hotmail.com"}

\* re.match(r"[^@]+@[^@]+\.[^@]+", email): a prefix of email has that shape
wrapper_format_ok(email) ==
    \E a \in 1..Len(email), d \in 1..Len(email) :
        /\ CharAt(email, a) = "@"
        /\ a > 1
        /\ \A j \in 1..(a - 1) : CharAt(email, j) # "@"
        /\ CharAt(email, d) = "."
        /\ d > a + 1
        /\ d < Len(email)
        /\ \A j \in (a + 1)..(d + 1) : CharAt(email, j) # "@"

is_valid_email(email, disposable_domains) ==
    LET domain == Lower(AfterLastAt(email))
    IN  IF ~wrapper_format_ok(email) THEN FALSE
        ELSE IF domain \in WHITELISTED_DOMAINS THEN TRUE
        ELSE IF domain \in disposable_domains THEN FALSE
        ELSE TRUE

(***************************************************************************)
(* The block list: the file blocklist/blocklist.txt as its sequence of     *)
(* lines (a missing file reads like an empty one), and the set in memory.  *)
(***************************************************************************)

\* One line of the local file as load_local_blocklist reads it: the domain it
\* adds, or Absent for a line it skips
local_line(line) ==
    LET ln == Lower(Strip(line))
    IN  IF ln = "" \/ StartsWith(ln, "#") THEN Absent
        ELSE IF CountChar(ln, "@") = 1 THEN AfterFirstAt(ln)
        ELSE ln

load_local_blocklist(file) ==
    {local_line(file[i]) : i \in 1..Len(file)} \ {Absent}

\* re.match(r'^[a-z0-9\.-]+\.[a-z]{2,}$', ln)
DomainSuffixMin == 2

domain_re_match(ln) ==
    \E d \in 2..Len(ln) :
        /\ CharAt(ln, d) = "."
        /\ \A i \in 1..(d - 1) :
               LET c == CharAt(ln, i)
               IN  c \in LowerSet \/ IsDigit(c) \/ c = "." \/ c = "-"
        /\ Len(ln) - d >= DomainSuffixMin
        /\ \A i \in (d + 1)..Len(ln) : CharAt(ln, i) \in LowerSet

\* One line of a fetched source as fetch_remote_blocklists_once reads it
remote_line(line) ==
    LET ln0 == Strip(line)
        ln1 == StripChars(ln0, "\"', ")
        ln2 == IF CountChar(ln1, "@") = 1 THEN AfterFirstAt(ln1) ELSE ln1
        ln3 == Lower(ln2)
    IN  IF ln0 = "" \/ StartsWith(ln0, "#") THEN Absent
        ELSE IF domain_re_match(ln3) THEN ln3
        ELSE Absent

\* The domains one 200 response contributes
remote_domains(body) ==
    {remote_line(body[i]) : i \in 1..Len(body)} \ {Absent}

RECURSIVE StrLess(_, _)
\* a < b as Python compares str: by code point, a proper prefix first
StrLess(a, b) ==
    IF b = "" THEN FALSE
    ELSE IF a = "" THEN TRUE
    ELSE IF CharAt(a, 1) # CharAt(b, 1)
         THEN CharCode(CharAt(a, 1)) < CharCode(CharAt(b, 1))
    ELSE StrLess(Tail1(a), Tail1(b))

RECURSIVE sorted(_)
\* sorted(domains): the list of a set of strings in ascending order
sorted(S) ==
    IF S = {} THEN << >>
    ELSE LET m == CHOOSE x \in S : \A y \in S \ {x} : StrLess(x, y)
         IN  <<m>> \o sorted(S \ {m})

\* Mutant: every domain is written with a leading dot
saved_lines_dotted(domains) == sorted({"." \o d : d \in domains})

\* What save_local_blocklist writes when no write fails: one line per domain
saved_lines(domains) == sorted(domains)

(***************************************************************************)
(* Bounds and the inputs the model draws from.                             *)
(***************************************************************************)

\* The clock runs from 0 to MaxNow
MaxNow == 2

\* At most this many DNS lookups are counted
MaxLookups == 2

\* The local file holds at most this many lines at start-up
MaxFileLines == 1

\* Lines the local block list file may hold at start-up
RawFileLines == {"blk.com", "gmail.com", " U@Host ", "u@", "#c"}

InitFiles ==
    {sorted(S) : S \in {T \in SUBSET RawFileLines : Cardinality(T) <= MaxFileLines}}

Locals == {"u"}

\* Domains that are put to the classifier
ProbeDomains ==
    {"gmail.com", "blk.com", "spam.com", "x1234.com", "ab.com", "clean.org",
     "b", "host", "x.c", "sub.gmail.com", "notgmail.com"}

\* Inputs that are no address of the shape local@domain
Malformed == {"", "nodomain", "a@b@c.com", "u @x.com"}

Emails ==
    {l \o "@" \o d : l \in Locals, d \in ProbeDomains}
        \cup Malformed \cup {" u@Gmail.COM "}

\* Domains has_mx is asked about directly
MxDomains == {"clean.org", "host"}

\* What disposable_domains.json may hold (validation_wrapper.py)
DisposableFiles == {{}, {"gmail.com", "blk.com"}}

\* What allowlist.json and blocklist.json may hold (email_checker.py)
CheckerAllowlists == {{"gmail.com"}}

CheckerBlocklists == {{"notgmail.com", "sub.gmail.com", "blk.com"}}

NoCall == [fn |-> "none"]

VARIABLES
    BLOCKSET,            \* main.py: the block set in memory
    blockFile,           \* blocklist/blocklist.txt: its lines
    disposable_domains,  \* validation_wrapper.py: the set loaded at import
    now,                 \* the clock
    lastCall,            \* the last call made, when, and what it returned
    dnsLookupCount,      \* DNS MX queries sent so far
    tz,                  \* the server's local time zone: its offset from UTC
    CLIENTS,             \* main.py: client id -> key, limit, usage per day
    CLIENTS_LOCK,        \* main.py: the request holding the lock, or NoHolder
    clientsFile,         \* clients.json: what the last save_clients wrote
    req,                 \* per request: where check_and_consume_quota stands
    sources,             \* what each remote source serves: its lines
    BLOCKSET_LOCK,       \* main.py: the refresher holding the lock, or NoHolder
    refr,                \* per refresher: where its refresh cycle stands
    scriptRuns,          \* how often updater.py has been run
    triggers,            \* requests to /update-now that are still to come
    lastCycle,           \* the latest finished refresh cycle, as observed
    clientJson,          \* api_gate.py: client.json, and whether it is whole
    gate                 \* per request to /api/check: where api_entry stands

classifyVars == <<BLOCKSET, blockFile, disposable_domains, lastCall, dnsLookupCount>>

quotaVars == <<tz, CLIENTS, CLIENTS_LOCK, clientsFile, req>>

refreshVars == <<sources, BLOCKSET_LOCK, refr, scriptRuns, triggers, lastCycle>>

gateVars == <<clientJson, gate>>

vars == <<classifyVars, now, quotaVars, refreshVars, gateVars>>

\* Time passes
(***************************************************************************)
(* The API gate of api_gate.py: its clients and its requests.              *)
(***************************************************************************)

\* The clients of client.json
GateClients == {"acme", "zeta"}

\* The key of a client of the gate
GateKey(c) == c \o "-key"

\* At most this many requests to /api/check are made
NumGateReqs == 3

GateReqs == 1..NumGateReqs

\* The name valid_key returns when no client holds the key
NoName == "<None>"

\* A request body without "email"
NoEmail == "<None>"

\* client.json at the start: no call counted yet
InitialClientJson ==
    [c \in GateClients |-> [key |-> GateKey(c), calls |-> 0, last_used |-> 0]]

IdleGate == [pc |-> "idle", client_name |-> NoName, clients |-> << >>,
             accepted |-> FALSE, status |-> 0]

GateIdle ==
    /\ clientJson = [data |-> InitialClientJson, whole |-> TRUE]
    /\ gate = [g \in GateReqs |-> IdleGate]

Tick ==
    /\ now < MaxNow
    /\ now' = now + 1
    /\ UNCHANGED <<classifyVars, quotaVars, refreshVars, gateVars>>

(***************************************************************************)
(* Refreshing the block list: fetch_remote_blocklists_once and             *)
(* background_updater_loop of main.py, and the script updater.py.          *)
(***************************************************************************)

\* REMOTE_BLOCKLIST_URLS (and the urls of updater.py): three sources
NumSources == 3

Urls == 1..NumSources

\* What the three sources serve
SourceBodies ==
    <<  <<"\"jsn.com\",", "bad line">>,
        <<"U@New.org", "#c">>,
        <<"blk.com">>  >>

\* requests.get: a 200 response, another status, or an exception
FetchOutcomes == {"200", "non200", "exception"}

\* At most this many refresh cycles are begun, and counted
MaxCycles == 2

\* updater.py is run at most this often
MaxScriptRuns == 1

NoHolder == 0

\* BLOCKSET_LOCK is held by no thread
NoRefresher == "<nobody>"

\* Whether "with BLOCKSET_LOCK" can be entered
blockset_lock_is_free(lock) == lock = NoRefresher

NoCycle == [who |-> "none"]

\* Mutant: a source that fails discards what the earlier sources gave
after_fetch_reset_on_failure(domains, body, outcome) ==
    IF outcome = "200" THEN domains \cup remote_domains(body) ELSE {}

\* fetch_remote_blocklists_once: the loop body for one url
after_fetch(domains, body, outcome) ==
    IF outcome = "200" THEN domains \cup remote_domains(body) ELSE domains

RECURSIVE fetch_loop(_, _, _, _)
\* fetch_remote_blocklists_once: the loop over the urls from url i on
fetch_loop(domains, i, bodies, outcome) ==
    IF i > NumSources THEN domains
    ELSE fetch_loop(after_fetch(domains, bodies[i], outcome[i]), i + 1,
                    bodies, outcome)

\* fh.write(line) at the writer's position pos (the lines it has written)
write_line(file, pos, line) ==
    [i \in 1..(IF Len(file) > pos + 1 THEN Len(file) ELSE pos + 1) |->
        IF i = pos + 1 THEN line
        ELSE IF i <= Len(file) THEN file[i] ELSE ""]

\* updater.py: one line of a response
updater_line(line) ==
    LET ln == Strip(line)
    IN  IF ln = "" \/ StartsWith(ln, "#") THEN Absent
        ELSE IF CountChar(ln, "@") = 1 THEN Lower(AfterFirstAt(ln))
        ELSE Lower(ln)

updater_domains(body) ==
    {updater_line(body[i]) : i \in 1..Len(body)} \ {Absent}

RECURSIVE updater_text(_)
\* updater.py: f.write(d+'\\n') for d in sorted(out): the text written, which
\* holds a backslash and an n after each domain and no line break
updater_text(lines) ==
    IF lines = << >> THEN ""
    ELSE Head(lines) \o "\\n" \o updater_text(Tail(lines))

\* The lines of the file updater.py leaves
updater_file(out) == IF out = {} THEN << >> ELSE <<updater_text(sorted(out))>>

\* The thread of background_updater_loop and the thread that serves a
\* request to /update-now
Refreshers == {"bg", "update_now"}

\* Requests to /update-now that arrive
MaxTriggers == 1

\* No cycle has completed yet, or the last one was not a clean one
NoPrev == [clean |-> FALSE]

\* A refresher before its first cycle
StartRefr == [pc |-> "start", i |-> 1, domains |-> {}, ok |-> {}, local |-> {},
              todo |-> << >>, pos |-> 0, wfail |-> FALSE, count |-> 0,
              cycles |-> 0, memBefore |-> {}, fileBefore |-> << >>,
              disturbed |-> FALSE, quiet |-> FALSE, prev |-> NoPrev]

\* Another writer than w has changed the block list file: every refresher
\* that has begun a cycle takes note
Disturbed(rf, w) ==
    [q \in Refreshers |->
        IF q = w \/ rf[q].pc = "start" THEN rf[q]
        ELSE [rf[q] EXCEPT !.disturbed = TRUE]]

RefreshIdle ==
    /\ sources = SourceBodies
    /\ BLOCKSET_LOCK = NoRefresher
    /\ refr = [r \in Refreshers |-> StartRefr]
    /\ scriptRuns = 0
    /\ triggers = 0
    /\ lastCycle = NoCycle

(***************************************************************************)
(* The quota ledger of main.py.                                            *)
(***************************************************************************)

\* Clock ticks per calendar day
TicksPerDay == 2

\* Offsets of the server's local time from UTC, in clock ticks
TzOffsets == {-1, 0, 1}

\* The UTC calendar day at clock reading t
UtcDay(t) == t \div TicksPerDay

\* datetime.date.today(): the calendar day in the server's local time zone
today(t, offset) == (t + offset) \div TicksPerDay

\* Requests handled: each is one call of check_and_consume_quota
NumReqs == 3

Reqs == 1..NumReqs

\* Daily limits a client record may hold
MaxLimit == 2

Limits == 0..MaxLimit

DEMO_KEY == "demo_key_123"

\* The api keys requests present: none, an unknown one, the demo client's
ApiKeys == {"", "unknown", DEMO_KEY}

NoClient == "<none>"

\* DEFAULT_CLIENTS with the limit clients.json gives the demo client
DefaultClients(limit) ==
    [cid \in {"demo"} |-> [key |-> DEMO_KEY, limit |-> limit, usage |-> << >>]]

\* get_client_id_by_key: the first client whose key matches, or None
get_client_id_by_key(clients, key) ==
    IF \E cid \in DOMAIN clients : clients[cid].key = key
    THEN CHOOSE cid \in DOMAIN clients : clients[cid].key = key
    ELSE NoClient

\* usage.get(day, 0)
usage_get(usage, day) == IF day \in DOMAIN usage THEN usage[day] ELSE 0

\* usage[day] = n
usage_set(usage, day, n) ==
    [d \in DOMAIN usage \cup {day} |-> IF d = day THEN n ELSE usage[d]]

\* Mutant: entering a with-block does not wait for the lock
lock_is_free_always(lock) == TRUE

\* Whether "with CLIENTS_LOCK" can be entered
lock_is_free(lock) == lock = NoHolder

\* cnt >= limit
limit_reached(cnt, limit) == cnt >= limit

IdleReq == [pc |-> "idle", key |-> "", cid |-> NoClient, day |-> 0, utc |-> 0,
            cnt |-> 0, ret |-> "none"]

QuotaIdle ==
    /\ tz = 0
    /\ CLIENTS = DefaultClients(0)
    /\ CLIENTS_LOCK = NoHolder
    /\ clientsFile = CLIENTS
    /\ req = [r \in Reqs |-> IdleReq]

\* load_clients at start-up: clients.json holds the demo client, no usage yet
InitQuota ==
    /\ GateIdle
    /\ tz \in TzOffsets
    /\ \E l \in Limits : CLIENTS = DefaultClients(l)
    /\ CLIENTS_LOCK = NoHolder
    /\ clientsFile = CLIENTS
    /\ req = [r \in Reqs |-> IdleReq]
    /\ now = 0
    /\ blockFile = << >>
    /\ BLOCKSET = {}
    /\ disposable_domains = {}
    /\ lastCall = NoCall
    /\ dnsLookupCount = 0
    /\ RefreshIdle

Done(r, result) ==
    [req[r] EXCEPT !.pc = "done", !.ret = result]

\* check_and_consume_quota(key) is called: "if not key" and the call of
\* get_client_id_by_key
QuotaStart(r, key) ==
    /\ req[r].pc = "idle"
    /\ \A q \in Reqs : q < r => req[q].pc # "idle"
    /\ req' = [req EXCEPT ![r] =
                  IF key = "" THEN [Done(r, "missing_api_key") EXCEPT !.key = key]
                  ELSE [req[r] EXCEPT !.pc = "lookup", !.key = key]]
    /\ UNCHANGED <<classifyVars, refreshVars, gateVars, now, tz, CLIENTS, CLIENTS_LOCK, clientsFile>>

\* get_client_id_by_key under CLIENTS_LOCK, and "if cid is None"
QuotaLookup(r) ==
    /\ req[r].pc = "lookup"
    /\ lock_is_free(CLIENTS_LOCK)
    /\ LET cid == get_client_id_by_key(CLIENTS, req[r].key)
       IN  req' = [req EXCEPT ![r] =
                      IF cid = NoClient THEN Done(r, "invalid_api_key")
                      ELSE [req[r] EXCEPT !.pc = "acquire", !.cid = cid]]
    /\ UNCHANGED <<classifyVars, refreshVars, gateVars, now, tz, CLIENTS, CLIENTS_LOCK, clientsFile>>

\* with CLIENTS_LOCK:
QuotaAcquire(r) ==
    /\ req[r].pc = "acquire"
    /\ lock_is_free(CLIENTS_LOCK)
    /\ CLIENTS_LOCK' = r
    /\ req' = [req EXCEPT ![r].pc = "read"]
    /\ UNCHANGED <<classifyVars, refreshVars, gateVars, now, tz, CLIENTS, clientsFile>>

\* today, cnt = usage.get(today, 0), "if cnt >= limit: return"
QuotaRead(r) ==
    /\ req[r].pc = "read"
    /\ LET client == CLIENTS[req[r].cid]
           day    == today(now, tz)
           cnt    == usage_get(client.usage, day)
       IN  IF limit_reached(cnt, client.limit)
           THEN /\ req' = [req EXCEPT ![r] =
                              [Done(r, "daily_limit_exceeded") EXCEPT
                                  !.day = day, !.utc = UtcDay(now), !.cnt = cnt]]
                /\ CLIENTS_LOCK' = NoHolder
           ELSE /\ req' = [req EXCEPT ![r].pc = "write", ![r].day = day,
                                      ![r].utc = UtcDay(now), ![r].cnt = cnt]
                /\ UNCHANGED CLIENTS_LOCK
    /\ UNCHANGED <<classifyVars, refreshVars, gateVars, now, tz, CLIENTS, clientsFile>>

\* usage[today] = cnt + 1
QuotaWrite(r) ==
    /\ req[r].pc = "write"
    /\ CLIENTS' = [CLIENTS EXCEPT ![req[r].cid].usage =
                      usage_set(@, req[r].day, req[r].cnt + 1)]
    /\ req' = [req EXCEPT ![r].pc = "save"]
    /\ UNCHANGED <<classifyVars, refreshVars, gateVars, now, tz, CLIENTS_LOCK, clientsFile>>

\* save_clients(), the end of the with-block, "return True, None"
QuotaSave(r) ==
    /\ req[r].pc = "save"
    /\ clientsFile' = CLIENTS
    /\ CLIENTS_LOCK' = NoHolder
    /\ req' = [req EXCEPT ![r] = Done(r, "ok")]
    /\ UNCHANGED <<classifyVars, refreshVars, gateVars, now, tz, CLIENTS>>

NextQuota ==
    \/ Tick
    \/ \E r \in Reqs, k \in ApiKeys : QuotaStart(r, k)
    \/ \E r \in Reqs : QuotaLookup(r)
    \/ \E r \in Reqs : QuotaAcquire(r)
    \/ \E r \in Reqs : QuotaRead(r)
    \/ \E r \in Reqs : QuotaWrite(r)
    \/ \E r \in Reqs : QuotaSave(r)

SpecQuota == InitQuota /\ [][NextQuota]_vars

(***************************************************************************)
(* The quota ledger with /create-key: clients come into being at run time. *)
(***************************************************************************)

\* Names given to /create-key
ClientNames == {"acme"}

\* Limits given to /create-key
CreateLimits == {1}

\* key = f"{name}-{ts}"
client_key(name, ts) == name \o "-" \o ToString(ts)

\* CLIENTS[key] = {"key": key, "name": name, "limit": int(limit), "usage": {}}
create_client_key(clients, name, limit, ts) ==
    LET key == client_key(name, ts)
    IN  [cid \in DOMAIN clients \cup {key} |->
            IF cid = key THEN [key |-> key, limit |-> limit, usage |-> << >>]
            ELSE clients[cid]]

\* The keys of the clients there are
KnownKeys == {CLIENTS[c].key : c \in DOMAIN CLIENTS}

\* load_clients at start-up, as for the ledger alone
InitClients ==
    /\ GateIdle
    /\ tz = 0
    /\ \E l \in Limits : CLIENTS = DefaultClients(l)
    /\ CLIENTS_LOCK = NoHolder
    /\ clientsFile = CLIENTS
    /\ req = [r \in Reqs |-> IdleReq]
    /\ now = 0
    /\ blockFile = << >>
    /\ BLOCKSET = {}
    /\ disposable_domains = {}
    /\ lastCall = NoCall
    /\ dnsLookupCount = 0
    /\ RefreshIdle

\* create_client_key(name, limit): ts = int(time.time()), and under
\* CLIENTS_LOCK the record is stored under its key and clients.json written
CreateClientKey(name, limit) ==
    /\ lock_is_free(CLIENTS_LOCK)
    /\ CLIENTS' = create_client_key(CLIENTS, name, limit, now)
    /\ clientsFile' = CLIENTS'
    /\ UNCHANGED <<classifyVars, refreshVars, gateVars, now, tz, CLIENTS_LOCK, req>>

NextClients ==
    \/ Tick
    \/ \E n \in ClientNames, l \in CreateLimits : CreateClientKey(n, l)
    \/ \E r \in Reqs, k \in KnownKeys : QuotaStart(r, k)
    \/ \E r \in Reqs : QuotaLookup(r)
    \/ \E r \in Reqs : QuotaAcquire(r)
    \/ \E r \in Reqs : QuotaRead(r)
    \/ \E r \in Reqs : QuotaWrite(r)
    \/ \E r \in Reqs : QuotaSave(r)

SpecClients == InitClients /\ [][NextClients]_vars

(***************************************************************************)
(* The route /verify of main.py: the quota gate, then the classification.  *)
(***************************************************************************)

\* Addresses sent to /verify
VerifyEmails == {"u@blk.com", "u@clean.org", "nodomain"}

\* Mutant: the classification runs whatever check_and_consume_quota returned
quota_ok_always(ret) == TRUE

\* verify_route: "ok, reason = check_and_consume_quota(api_key)", "if not ok"
quota_ok(ret) == ret = "ok"

\* verify_route: what is sent back once check_and_consume_quota has returned ret
verify_response(ret, email, blockset, outcome) ==
    IF quota_ok(ret)
    THEN [status |-> 200, body |-> verify_email_core(email, blockset, outcome)]
    ELSE [status |-> IF ret = "daily_limit_exceeded" THEN 429 ELSE 401,
          body |-> [error |-> ret]]

\* initialize_server: the demo client with some limit, a block list of one domain
InitVerify ==
    /\ GateIdle
    /\ tz = 0
    /\ \E l \in Limits : CLIENTS = DefaultClients(l)
    /\ CLIENTS_LOCK = NoHolder
    /\ clientsFile = CLIENTS
    /\ req = [r \in Reqs |-> IdleReq]
    /\ now = 0
    /\ blockFile = <<"blk.com">>
    /\ BLOCKSET = load_local_blocklist(blockFile)
    /\ disposable_domains = {}
    /\ lastCall = NoCall
    /\ dnsLookupCount = 0
    /\ RefreshIdle

\* verify_route: "if not api_key" is answered 401 before any other call
VerifyNoKey(r) ==
    /\ req[r].pc = "idle"
    /\ \A q \in Reqs : q < r => req[q].pc # "idle"
    /\ req' = [req EXCEPT ![r].pc = "answered"]
    /\ lastCall' = [fn |-> "verify_route", key |-> "", ret |-> "none",
                    classified |-> FALSE, status |-> 401,
                    body |-> [error |-> "API key required"]]
    /\ UNCHANGED <<BLOCKSET, blockFile, disposable_domains, dnsLookupCount, now,
                   tz, CLIENTS, CLIENTS_LOCK, clientsFile, refreshVars, gateVars>>

\* verify_route after check_and_consume_quota has returned: the error answer,
\* or verify_email_core(email) and its result
VerifyRespond(r, email, outcome) ==
    /\ req[r].pc = "done"
    /\ quota_ok(req[r].ret) => blockset_lock_is_free(BLOCKSET_LOCK)
    /\ req' = [req EXCEPT ![r].pc = "answered"]
    /\ LET resp == verify_response(req[r].ret, email, BLOCKSET, outcome)
       IN  lastCall' = [fn |-> "verify_route", key |-> req[r].key,
                        ret |-> req[r].ret, classified |-> quota_ok(req[r].ret),
                        status |-> resp.status, body |-> resp.body]
    /\ dnsLookupCount' = IF quota_ok(req[r].ret) /\ calls_has_mx(email)
                         THEN dnsLookupCount + 1 ELSE dnsLookupCount
    /\ UNCHANGED <<BLOCKSET, blockFile, disposable_domains, now,
                   tz, CLIENTS, CLIENTS_LOCK, clientsFile, refreshVars, gateVars>>

NextVerify ==
    \/ \E r \in Reqs : VerifyNoKey(r)
    \/ \E r \in Reqs, k \in ApiKeys \ {""} : QuotaStart(r, k)
    \/ \E r \in Reqs : QuotaLookup(r)
    \/ \E r \in Reqs : QuotaAcquire(r)
    \/ \E r \in Reqs : QuotaRead(r)
    \/ \E r \in Reqs : QuotaWrite(r)
    \/ \E r \in Reqs : QuotaSave(r)
    \/ \E r \in Reqs, e \in VerifyEmails, o \in DnsOutcomes : VerifyRespond(r, e, o)

SpecVerify == InitVerify /\ [][NextVerify]_vars

(***************************************************************************)
(* The refresh cycle, step by step.                                        *)
(***************************************************************************)

\* initialize_server: the block set is loaded, the background thread starts
InitRefresh ==
    /\ GateIdle
    /\ blockFile \in InitFiles
    /\ BLOCKSET = load_local_blocklist(blockFile)
    /\ RefreshIdle
    /\ QuotaIdle
    /\ disposable_domains = {}
    /\ now = 0
    /\ lastCall = NoCall
    /\ dnsLookupCount = 0

RefreshUnchanged ==
    UNCHANGED <<disposable_domains, lastCall, dnsLookupCount, now, quotaVars, sources,
                gateVars>>

\* The refresh cycles begun so far, by all refreshers
CyclesBegun ==
    LET begun(r) == refr[r].cycles
                        + (IF refr[r].pc \in {"start", "sleep"} THEN 0 ELSE 1)
    IN  begun("bg") + begun("update_now")

\* The call of fetch_remote_blocklists_once by refresher r: its locals are fresh
BeginCycle(r) ==
    [refr EXCEPT ![r] =
        [@ EXCEPT !.pc = "fetch", !.i = 1, !.domains = {}, !.ok = {},
                  !.local = {}, !.todo = << >>, !.pos = 0,
                  !.wfail = FALSE, !.count = 0,
                  !.memBefore = BLOCKSET, !.fileBefore = blockFile,
                  !.quiet = ~refr[r].disturbed, !.disturbed = FALSE]]

\* background_updater_loop: a cycle begins with the call of
\* fetch_remote_blocklists_once; what is known of the last cycle is forgotten
RefreshStart(r) ==
    /\ r = "bg"
    /\ refr[r].pc \in {"start", "sleep"}
    /\ CyclesBegun < MaxCycles
    /\ refr' = BeginCycle(r)
    /\ lastCycle' = NoCycle
    /\ UNCHANGED <<BLOCKSET, blockFile, BLOCKSET_LOCK, scriptRuns, triggers>>
    /\ RefreshUnchanged

\* update_now_route: a trigger_key that is given and belongs to no client is
\* answered 401; otherwise fetch_remote_blocklists_once is called
UpdateNow(r, trigger_key) ==
    /\ r = "update_now"
    /\ triggers > 0
    /\ triggers' = triggers - 1
    /\ refr[r].pc \in {"start", "sleep"}
    /\ CyclesBegun < MaxCycles
    /\ trigger_key = "" \/ lock_is_free(CLIENTS_LOCK)
    /\ IF trigger_key # "" /\ get_client_id_by_key(CLIENTS, trigger_key) = NoClient
       THEN /\ lastCycle' = [who |-> r, stage |-> "refused", status |-> 401]
            /\ UNCHANGED refr
       ELSE /\ lastCycle' = NoCycle
            /\ refr' = BeginCycle(r)
    /\ UNCHANGED <<BLOCKSET, blockFile, BLOCKSET_LOCK, scriptRuns>>
    /\ RefreshUnchanged

\* for url in REMOTE_BLOCKLIST_URLS: requests.get and the parsing of a 200.
\* The loop touches nothing but its own locals, so it is one step.
Fetch(r, outcome) ==
    /\ refr[r].pc = "fetch"
    /\ refr' = [refr EXCEPT ![r] =
                   [@ EXCEPT !.domains = fetch_loop({}, 1, sources, outcome),
                             !.ok = {u \in Urls : outcome[u] = "200"},
                             !.i = NumSources + 1,
                             !.pc = "load"]]
    /\ UNCHANGED <<BLOCKSET, blockFile, BLOCKSET_LOCK, scriptRuns, lastCycle, triggers>>
    /\ RefreshUnchanged

\* local = load_local_blocklist(); domains.update(local)
LoadLocal(r) ==
    /\ refr[r].pc = "load"
    /\ LET local == load_local_blocklist(blockFile)
       IN  refr' = [refr EXCEPT ![r] =
                       [@ EXCEPT !.local = local, !.domains = @ \cup local,
                                 !.pc = "open"]]
    /\ UNCHANGED <<BLOCKSET, blockFile, BLOCKSET_LOCK, scriptRuns, lastCycle, triggers>>
    /\ RefreshUnchanged

\* save_local_blocklist: BLOCKLIST_FILE.open("w") empties the file, or raises
\* and the exception is logged
SaveOpen(r, opened) ==
    /\ refr[r].pc = "open"
    /\ IF opened
       THEN /\ blockFile' = << >>
            /\ refr' = Disturbed([refr EXCEPT ![r] =
                           [@ EXCEPT !.todo = saved_lines(refr[r].domains),
                                     !.pos = 0, !.pc = "write"]], r)
       ELSE /\ UNCHANGED blockFile
            /\ refr' = [refr EXCEPT ![r] = [@ EXCEPT !.wfail = TRUE, !.pc = "saved"]]
    /\ UNCHANGED <<BLOCKSET, BLOCKSET_LOCK, scriptRuns, lastCycle, triggers>>
    /\ RefreshUnchanged

\* save_local_blocklist: fh.write(d + "\n") for the next domain, which may
\* raise; after the last one the file is closed
SaveWrite(r, written) ==
    /\ refr[r].pc = "write"
    /\ IF refr[r].todo = << >>
       THEN /\ UNCHANGED blockFile
            /\ refr' = [refr EXCEPT ![r].pc = "saved"]
       ELSE IF written
       THEN /\ blockFile' = write_line(blockFile, refr[r].pos, Head(refr[r].todo))
            /\ refr' = Disturbed([refr EXCEPT ![r] =
                           [@ EXCEPT !.todo = Tail(@), !.pos = @ + 1]], r)
       ELSE /\ UNCHANGED blockFile
            /\ refr' = [refr EXCEPT ![r] = [@ EXCEPT !.wfail = TRUE, !.pc = "saved"]]
    /\ UNCHANGED <<BLOCKSET, BLOCKSET_LOCK, scriptRuns, lastCycle, triggers>>
    /\ RefreshUnchanged

\* fetch_remote_blocklists_once: return len(domains)
Return(r) ==
    /\ refr[r].pc = "saved"
    /\ refr' = [refr EXCEPT ![r] =
                   [@ EXCEPT !.count = Cardinality(refr[r].domains), !.pc = "swap"]]
    /\ lastCycle' = [who |-> r, stage |-> "aggregated", ok |-> refr[r].ok,
                     wfail |-> refr[r].wfail, disturbed |-> refr[r].disturbed,
                     fileBefore |-> refr[r].fileBefore,
                     local |-> refr[r].local, domains |-> refr[r].domains,
                     count |-> Cardinality(refr[r].domains),
                     fileAtSave |-> blockFile]
    /\ UNCHANGED <<BLOCKSET, blockFile, BLOCKSET_LOCK, scriptRuns, triggers>>
    /\ RefreshUnchanged

\* "with BLOCKSET_LOCK:" is entered
SwapAcquire(r) ==
    /\ refr[r].pc = "swap"
    /\ blockset_lock_is_free(BLOCKSET_LOCK)
    /\ BLOCKSET_LOCK' = r
    /\ refr' = [refr EXCEPT ![r].pc = "reload"]
    /\ UNCHANGED <<BLOCKSET, blockFile, scriptRuns, lastCycle, triggers>>
    /\ RefreshUnchanged

\* Whether the file that refresher r is about to load is a half-written one:
\* another refresher has emptied it and still has lines to write, and what
\* it holds is neither the list r wrote nor the list the other one is writing
half_written(r) ==
    \E q \in Refreshers \ {r} :
        /\ refr[q].pc = "write"
        /\ refr[q].todo # << >>
        /\ load_local_blocklist(blockFile)
              # load_local_blocklist(saved_lines(refr[r].domains))
        /\ load_local_blocklist(blockFile)
              # load_local_blocklist(saved_lines(refr[q].domains))

\* BLOCKSET = load_local_blocklist(); the lock is released; the thread sleeps,
\* the request is answered
Reload(r) ==
    /\ refr[r].pc = "reload"
    /\ BLOCKSET_LOCK = r
    /\ BLOCKSET' = load_local_blocklist(blockFile)
    /\ BLOCKSET_LOCK' = NoRefresher
    /\ LET clean == /\ refr[r].ok = Urls
                    /\ ~refr[r].wfail
                    /\ ~refr[r].disturbed
           done  == [clean |-> clean,
                     memAfter |-> load_local_blocklist(blockFile),
                     fileAfter |-> blockFile]
       IN  /\ refr' = [refr EXCEPT ![r] =
                          [@ EXCEPT !.pc = "sleep",
                                    !.cycles = IF @ < MaxCycles THEN @ + 1 ELSE @,
                                    !.disturbed = FALSE,
                                    !.prev = IF clean THEN done ELSE NoPrev]]
           /\ lastCycle' = [who |-> r, stage |-> "done", ok |-> refr[r].ok,
                            wfail |-> refr[r].wfail,
                            disturbed |-> refr[r].disturbed,
                            quiet |-> refr[r].quiet,
                            memBefore |-> refr[r].memBefore,
                            fileBefore |-> refr[r].fileBefore,
                            memAfter |-> done.memAfter,
                            fileAfter |-> blockFile,
                            count |-> refr[r].count,
                            halfWritten |-> half_written(r),
                            clean |-> clean,
                            prev |-> refr[r].prev]
    /\ UNCHANGED <<blockFile, scriptRuns, triggers>>
    /\ RefreshUnchanged

\* updater.py is run: it fetches its sources and rewrites the block list file.
\* ok is the set of urls that answer 200; another status and an exception
\* both leave out as it was.
UpdaterScript(ok) ==
    /\ scriptRuns < MaxScriptRuns
    /\ scriptRuns' = scriptRuns + 1
    /\ LET out == UNION {updater_domains(sources[u]) : u \in ok}
       IN  /\ blockFile' = updater_file(out)
           /\ lastCycle' = [who |-> "updater.py", stage |-> "done", ok |-> ok,
                            wfail |-> FALSE, disturbed |-> FALSE, quiet |-> FALSE,
                            memBefore |-> BLOCKSET, fileBefore |-> blockFile,
                            memAfter |-> BLOCKSET, fileAfter |-> updater_file(out),
                            count |-> Cardinality(out), halfWritten |-> FALSE,
                            clean |-> FALSE, prev |-> NoPrev]
    /\ refr' = Disturbed(refr, "updater.py")
    /\ UNCHANGED <<BLOCKSET, BLOCKSET_LOCK, triggers>>
    /\ RefreshUnchanged

NextRefresh ==
    \/ \E r \in Refreshers : RefreshStart(r)
    \/ \E r \in Refreshers, o \in [Urls -> FetchOutcomes] : Fetch(r, o)
    \/ \E r \in Refreshers : LoadLocal(r)
    \/ \E r \in Refreshers, b \in BOOLEAN : SaveOpen(r, b)
    \/ \E r \in Refreshers, b \in BOOLEAN : SaveWrite(r, b)
    \/ \E r \in Refreshers : Return(r)
    \/ \E r \in Refreshers : SwapAcquire(r)
    \/ \E r \in Refreshers : Reload(r)
    \/ \E ok \in SUBSET Urls : UpdaterScript(ok)

SpecRefresh == InitRefresh /\ [][NextRefresh]_vars

(***************************************************************************)
(* The background cycle together with requests to /update-now.             *)
(***************************************************************************)

\* initialize_server, with requests to /update-now still to come
InitTrigger ==
    /\ GateIdle
    /\ blockFile \in InitFiles
    /\ BLOCKSET = load_local_blocklist(blockFile)
    /\ sources = SourceBodies
    /\ BLOCKSET_LOCK = NoRefresher
    /\ refr = [r \in Refreshers |-> StartRefr]
    /\ scriptRuns = 0
    /\ triggers = MaxTriggers
    /\ lastCycle = NoCycle
    /\ QuotaIdle
    /\ disposable_domains = {}
    /\ now = 0
    /\ lastCall = NoCall
    /\ dnsLookupCount = 0

\* What the sources answer here: the first one may fail, the others answer
TriggerOutcomes ==
    {o \in [Urls -> FetchOutcomes] : \A u \in Urls \ {1} : o[u] = "200"}

\* The steps of both refreshers; here the disk takes every write
NextTrigger ==
    \/ \E r \in Refreshers : RefreshStart(r)
    \/ \E r \in Refreshers, k \in ApiKeys : UpdateNow(r, k)
    \/ \E r \in Refreshers, o \in TriggerOutcomes : Fetch(r, o)
    \/ \E r \in Refreshers : LoadLocal(r)
    \/ \E r \in Refreshers : SaveOpen(r, TRUE)
    \/ \E r \in Refreshers : SaveWrite(r, TRUE)
    \/ \E r \in Refreshers : Return(r)
    \/ \E r \in Refreshers : SwapAcquire(r)
    \/ \E r \in Refreshers : Reload(r)

SpecTrigger == InitTrigger /\ [][NextTrigger]_vars

(***************************************************************************)
(* background_updater_loop as a loop that goes on: "while True", with the  *)
(* "except Exception" that ends every iteration in time.sleep(interval).   *)
(***************************************************************************)

\* Mutant: an exception in a cycle ends the thread
after_except_thread_ends == "ended"

\* except Exception as e: logging.exception(...), and on to time.sleep
after_except == "sleep"

\* Where in a cycle an exception can come up that no inner try catches
RaisePoints == {"fetch", "load", "open", "saved", "swap", "reload"}

\* What the sources answer here: all of them, or none
LoopOutcomes ==
    {o \in [Urls -> FetchOutcomes] :
        \/ \A u \in Urls : o[u] = "200"
        \/ \A u \in Urls : o[u] = "exception"}

InitLoop ==
    /\ GateIdle
    /\ blockFile \in InitFiles
    /\ BLOCKSET = load_local_blocklist(blockFile)
    /\ RefreshIdle
    /\ QuotaIdle
    /\ disposable_domains = {}
    /\ now = 0
    /\ lastCall = NoCall
    /\ dnsLookupCount = 0

\* while True: time.sleep(interval) has returned (or the thread has just been
\* started) and the next iteration calls fetch_remote_blocklists_once
LoopStart(r) ==
    /\ r = "bg"
    /\ refr[r].pc \in {"start", "sleep"}
    /\ refr' = BeginCycle(r)
    /\ UNCHANGED <<BLOCKSET, blockFile, BLOCKSET_LOCK, scriptRuns, triggers, lastCycle>>
    /\ RefreshUnchanged

\* An exception comes up in the cycle: a with-block that was entered releases
\* BLOCKSET_LOCK, the except clause logs it
CycleRaises(r) ==
    /\ r = "bg"
    /\ refr[r].pc \in RaisePoints
    /\ BLOCKSET_LOCK' = IF BLOCKSET_LOCK = r THEN NoRefresher ELSE BLOCKSET_LOCK
    /\ refr' = [refr EXCEPT ![r] = [@ EXCEPT !.pc = after_except, !.prev = NoPrev]]
    /\ lastCycle' = [who |-> r, stage |-> "raised", at |-> refr[r].pc]
    /\ UNCHANGED <<BLOCKSET, blockFile, scriptRuns, triggers>>
    /\ RefreshUnchanged

\* The steps of the background thread that do not raise
LoopStep ==
    \/ \E r \in Refreshers : LoopStart(r)
    \/ \E r \in Refreshers, o \in LoopOutcomes : Fetch(r, o)
    \/ \E r \in Refreshers : LoadLocal(r)
    \/ \E r \in Refreshers, b \in BOOLEAN : SaveOpen(r, b)
    \/ \E r \in Refreshers, b \in BOOLEAN : SaveWrite(r, b)
    \/ \E r \in Refreshers : Return(r)
    \/ \E r \in Refreshers : SwapAcquire(r)
    \/ \E r \in Refreshers : Reload(r)

\* The step of the thread: one that raises, or one that does not
NextLoop ==
    \/ \E r \in Refreshers : CycleRaises(r)
    \/ LoopStep

\* The thread is scheduled again and again and time.sleep returns
SpecLoop == InitLoop /\ [][NextLoop]_vars /\ WF_vars(NextLoop)

(***************************************************************************)
(* Classification: requests served against the block set loaded at         *)
(* start-up.                                                               *)
(***************************************************************************)

\* initialize_server: BLOCKSET = load_local_blocklist()
InitClassify ==
    /\ GateIdle
    /\ blockFile \in InitFiles
    /\ BLOCKSET = load_local_blocklist(blockFile)
    /\ disposable_domains \in DisposableFiles
    /\ now = 0
    /\ lastCall = NoCall
    /\ dnsLookupCount = 0
    /\ QuotaIdle
    /\ RefreshIdle

\* has_mx(domain): always queries DNS
HasMxCall(domain, outcome) ==
    /\ dnsLookupCount < MaxLookups
    /\ dnsLookupCount' = dnsLookupCount + 1
    /\ lastCall' = [fn |-> "has_mx", at |-> now, mxDomain |-> domain,
                    outcome |-> outcome, result |-> has_mx(outcome)]
    /\ UNCHANGED <<BLOCKSET, blockFile, disposable_domains, now, quotaVars, refreshVars, gateVars>>

\* verify_email_core(email)
Classify(email, outcome) ==
    /\ dnsLookupCount < MaxLookups
    /\ lastCall' = [fn |-> "verify_email_core", at |-> now, email |-> email,
                    mxDomain |-> IF calls_has_mx(email)
                                 THEN domain_from_email(Strip(email)) ELSE Absent,
                    outcome |-> outcome,
                    result |-> verify_email_core(email, BLOCKSET, outcome)]
    /\ dnsLookupCount' = IF calls_has_mx(email) THEN dnsLookupCount + 1
                         ELSE dnsLookupCount
    /\ UNCHANGED <<BLOCKSET, blockFile, disposable_domains, now, quotaVars, refreshVars, gateVars>>

\* validation_wrapper.is_valid_email(email)
WrapperCheck(email) ==
    /\ lastCall' = [fn |-> "is_valid_email", at |-> now, email |-> email,
                    mxDomain |-> Absent,
                    result |-> is_valid_email(email, disposable_domains)]
    /\ UNCHANGED <<BLOCKSET, blockFile, disposable_domains, now, dnsLookupCount, quotaVars,
                   refreshVars, gateVars>>

\* email_checker.is_allowed(email)
IsAllowedCall(email, allowlist, blocklist) ==
    /\ lastCall' = [fn |-> "is_allowed", at |-> now, email |-> email,
                    mxDomain |-> Absent, allowlist |-> allowlist,
                    blocklist |-> blocklist,
                    result |-> is_allowed(email, allowlist, blocklist)]
    /\ UNCHANGED <<BLOCKSET, blockFile, disposable_domains, now, dnsLookupCount, quotaVars,
                   refreshVars, gateVars>>

NextClassify ==
    \/ \E e \in Emails, a \in CheckerAllowlists, b \in CheckerBlocklists :
           IsAllowedCall(e, a, b)
    \/ \E e \in Emails, o \in DnsOutcomes : Classify(e, o)
    \/ \E d \in MxDomains, o \in DnsOutcomes : HasMxCall(d, o)
    \/ \E e \in Emails : WrapperCheck(e)

SpecClassify == InitClassify /\ [][NextClassify]_vars

(***************************************************************************)
(* The API gate of api_gate.py: /api/check, handled by concurrent threads. *)
(* client.json is read and rewritten without any lock.                     *)
(***************************************************************************)

\* The keys requests present, and their bodies' "email"
GateKeys == {GateKey(c) : c \in GateClients} \cup {"bad"}

GateEmails == {"u@clean.org", NoEmail}

\* valid_key: the name of the first client that holds the key, or None
valid_key(clients, api_key) ==
    IF \E c \in DOMAIN clients : clients[c].key = api_key
    THEN CHOOSE c \in DOMAIN clients : clients[c].key = api_key
    ELSE NoName

\* log_usage: the clients it saves, made from the clients it loaded
log_usage(clients, client_name, t) ==
    [c \in DOMAIN clients \cup {client_name} |->
        IF c # client_name THEN clients[c]
        ELSE IF c \in DOMAIN clients
             THEN [clients[c] EXCEPT !.calls = @ + 1, !.last_used = t]
             ELSE [key |-> NoName, calls |-> 1, last_used |-> t]]

GateAnswer(g, status) ==
    [gate EXCEPT ![g] = [@ EXCEPT !.pc = "answered", !.status = status]]

GateUnchanged == UNCHANGED <<classifyVars, now, quotaVars, refreshVars>>

InitGate ==
    /\ GateIdle
    /\ blockFile = << >>
    /\ BLOCKSET = {}
    /\ disposable_domains = {}
    /\ now = 0
    /\ lastCall = NoCall
    /\ dnsLookupCount = 0
    /\ QuotaIdle
    /\ RefreshIdle

\* api_entry up to log_usage: valid_key(api_key), whose json.load raises on
\* a file that is being rewritten, and the test of "email"
GateEntry(g, api_key, email) ==
    /\ gate[g].pc = "idle"
    /\ \A q \in GateReqs : q < g => gate[q].pc # "idle"
    /\ LET name == valid_key(clientJson.data, api_key)
       IN  gate' = IF ~clientJson.whole THEN GateAnswer(g, 500)
                   ELSE IF name = NoName THEN GateAnswer(g, 403)
                   ELSE IF email = NoEmail THEN GateAnswer(g, 400)
                   ELSE [gate EXCEPT ![g] =
                            [@ EXCEPT !.pc = "log", !.client_name = name]]
    /\ UNCHANGED clientJson
    /\ GateUnchanged

\* log_usage: clients = load_json("client.json")
GateLoad(g) ==
    /\ gate[g].pc = "log"
    /\ gate' = IF ~clientJson.whole THEN GateAnswer(g, 500)
               ELSE [gate EXCEPT ![g] =
                        [@ EXCEPT !.pc = "open", !.clients = clientJson.data]]
    /\ UNCHANGED clientJson
    /\ GateUnchanged

\* save_json: open(filename, "w") empties the file
GateOpen(g) ==
    /\ gate[g].pc = "open"
    /\ clientJson' = [clientJson EXCEPT !.whole = FALSE]
    /\ gate' = [gate EXCEPT ![g].pc = "dump"]
    /\ GateUnchanged

\* save_json: json.dump and the close of the file; then subprocess.run and
\* the answer, 200 or, when subprocess.run raised, 500
GateDump(g, status) ==
    /\ gate[g].pc = "dump"
    /\ clientJson' = [data |-> log_usage(gate[g].clients, gate[g].client_name, now),
                      whole |-> TRUE]
    /\ gate' = [gate EXCEPT ![g] =
                   [@ EXCEPT !.pc = "answered", !.accepted = TRUE,
                             !.status = status]]
    /\ GateUnchanged

NextGate ==
    \/ \E g \in GateReqs, k \in GateKeys, e \in GateEmails : GateEntry(g, k, e)
    \/ \E g \in GateReqs : GateLoad(g)
    \/ \E g \in GateReqs : GateOpen(g)
    \/ \E g \in GateReqs, status \in {200, 500} : GateDump(g, status)

SpecGate == InitGate /\ [][NextGate]_vars

(***************************************************************************)
(* Properties of classification.                                           *)
(***************************************************************************)

IsVerify == lastCall.fn = "verify_email_core"

\* A domain with a dot followed by a suffix of at least two letters
HasDotAndSuffix(domain) ==
    \E d \in 2..Len(domain) :
        /\ CharAt(domain, d) = "."
        /\ Len(domain) - d >= 2
        /\ \A i \in (d + 1)..Len(domain) : IsAlphaChar(CharAt(domain, i))

\* The shape local@domain-with-a-dot-and-2+-letter-suffix
WellShaped(email) ==
    /\ CountChar(email, "@") = 1
    /\ \A i \in 1..Len(email) : CharAt(email, i) # " "
    /\ Len(email) - Len(AfterFirstAt(email)) > 1
    /\ HasDotAndSuffix(AfterFirstAt(email))

\* C1: an address local@D with D in the allow list is classified valid, not
\* disposable, with the allow-list reason, whatever the block set holds
\* (D included), whatever the heuristics say and whatever DNS answers; the
\* wrapper's is_valid_email likewise accepts every whitelisted domain.
C1_AllowlistWins ==
    /\ \A l \in Locals, D \in TRUSTED_PROVIDERS :
           (IsVerify /\ lastCall.email = l \o "@" \o D)
               => /\ lastCall.result.valid = TRUE
                  /\ lastCall.result.disposable = FALSE
                  /\ lastCall.result.reason = "trusted_provider"
    /\ \A l \in Locals, D \in WHITELISTED_DOMAINS :
           (lastCall.fn = "is_valid_email" /\ lastCall.email = l \o "@" \o D)
               => lastCall.result = TRUE

\* C1 witness: an allow-listed domain that is also in the block set, with a
\* failing MX lookup, was classified
C1_Witness ==
    /\ IsVerify
    /\ lastCall.email = "u@gmail.com"
    /\ "gmail.com" \in BLOCKSET
    /\ lastCall.outcome = "timeout"
    /\ lastCall.result.reason = "trusted_provider"

\* C2: an address local@D with D in the block set and not in the allow list is
\* classified not valid and disposable, whatever DNS answers.
C2_BlocklistedIsDisposable ==
    \A l \in Locals, D \in (BLOCKSET \cap ProbeDomains) \ TRUSTED_PROVIDERS :
        (IsVerify /\ lastCall.email = l \o "@" \o D)
            => /\ lastCall.result.valid = FALSE
               /\ lastCall.result.disposable = TRUE

\* C2 witness: a block-listed domain that matches no heuristic and has an MX
\* record was classified
C2_Witness ==
    /\ IsVerify
    /\ lastCall.email = "u@blk.com"
    /\ "blk.com" \in BLOCKSET
    /\ ~suspicious_by_pattern("blk.com")
    /\ lastCall.outcome = "answer"
    /\ lastCall.result.disposable = TRUE

\* C3: an address whose domain is in neither list and matches no heuristic is
\* classified not valid, disposable, no_mx when the MX lookup finds nothing or
\* fails, and valid, not disposable, reason valid when an MX record is present.
C3_MxStage ==
    \A l \in Locals, D \in ProbeDomains \ (TRUSTED_PROVIDERS \cup BLOCKSET) :
        (/\ IsVerify
         /\ lastCall.email = l \o "@" \o D
         /\ HasDotAndSuffix(D)
         /\ ~suspicious_by_pattern(D))
            => IF lastCall.outcome = "answer"
               THEN /\ lastCall.result.valid = TRUE
                    /\ lastCall.result.disposable = FALSE
                    /\ lastCall.result.reason = "valid"
               ELSE /\ lastCall.result.valid = FALSE
                    /\ lastCall.result.disposable = TRUE
                    /\ lastCall.result.reason = "no_mx"

\* C4: every input that is not of the shape local@domain, the domain holding a
\* dot followed by at least two letters, is rejected as invalid format: not
\* valid, and no list, heuristic or MX stage is reached.
C4_SyntaxStage ==
    (IsVerify /\ ~WellShaped(Strip(lastCall.email)))
        => /\ lastCall.result.valid = FALSE
           /\ lastCall.result.reason \in {"empty", "invalid_syntax"}
           /\ lastCall.mxDomain = Absent

\* C7: a has_mx call for the domain that was looked up at this same clock
\* reading (so within any TTL) sends no new DNS query.
C7_MxLookupCached ==
    [][(/\ lastCall.fn # "none"
        /\ lastCall.mxDomain # Absent
        /\ lastCall'.mxDomain = lastCall.mxDomain
        /\ lastCall'.at = lastCall.at)
           => dnsLookupCount' = dnsLookupCount]_vars

\* Whether D is an allow-listed domain or a subdomain of one
allow_match(D, allowlist) ==
    \E a \in allowlist : D = a \/ EndsWith(D, "." \o a)

\* C14: the allow list matches a domain exactly when it is an allow-listed
\* domain or a subdomain of one: verify_email_core gives the allow-list
\* answer for exactly those domains, and is_allowed lets a block-listed
\* domain pass exactly when it is one of those.
C14_AllowlistMatchesSubdomains ==
    /\ \A l \in Locals, D \in ProbeDomains :
           (IsVerify /\ lastCall.email = l \o "@" \o D) =>
               (lastCall.result.reason = "trusted_provider"
                    <=> allow_match(D, TRUSTED_PROVIDERS))
    /\ \A l \in Locals, D \in ProbeDomains :
           (/\ lastCall.fn = "is_allowed"
            /\ lastCall.email = l \o "@" \o D
            /\ D \in lastCall.blocklist) =>
               (lastCall.result <=> allow_match(D, lastCall.allowlist))

\* The reason verify_email_core gives for a block-listed domain that matches
\* no heuristic
BlocklistedReason(outcome) ==
    verify_email_core("u@blk.com", {"blk.com"}, outcome).reason

\* C21: a well-shaped address whose domain is in neither the allow list nor
\* the block set and matches a heuristic is classified not valid and
\* disposable whatever the MX lookup returns, and with a reason that differs
\* from the reason given for a block-listed domain.
C21_HeuristicHasOwnReason ==
    \A l \in Locals, D \in ProbeDomains \ (TRUSTED_PROVIDERS \cup BLOCKSET) :
        (/\ IsVerify
         /\ lastCall.email = l \o "@" \o D
         /\ WellShaped(lastCall.email)
         /\ suspicious_by_pattern(D)) =>
            /\ lastCall.result.valid = FALSE
            /\ lastCall.result.disposable = TRUE
            /\ lastCall.result.reason # BlocklistedReason(lastCall.outcome)

(***************************************************************************)
(* Properties of the quota ledger.                                         *)
(***************************************************************************)

UtcDays == 0..UtcDay(MaxNow)

\* The finished calls made for client c that returned ret
CallsOf(c, ret) ==
    {r \in Reqs : req[r].pc = "done" /\ req[r].cid = c /\ req[r].ret = ret}

\* C5: for a client with limit L >= 0 and no usage yet, the calls made on one
\* UTC day succeed exactly L times: no more than L succeed, a call is refused
\* only after L have succeeded on that UTC day (so the first call of the next
\* UTC day succeeds when L > 0), and a refused call found the count at L.
C5_QuotaPerUtcDay ==
    \A c \in DOMAIN CLIENTS, d \in UtcDays :
        LET L == CLIENTS[c].limit
            S == {r \in CallsOf(c, "ok") : req[r].utc = d}
            F == {r \in CallsOf(c, "daily_limit_exceeded") : req[r].utc = d}
        IN  L >= 0 =>
                /\ Cardinality(S) <= L
                /\ F # {} => Cardinality(S) = L
                /\ \A r \in F : req[r].cnt = L

\* The requests that called check_and_consume_quota with client c's key
CallersOf(c) == {r \in Reqs : req[r].pc # "idle" /\ req[r].key = CLIENTS[c].key}

\* C6: when N >= 1 requests, running in parallel, have all called
\* check_and_consume_quota for one client with limit N-1 and no earlier usage,
\* all on the same day, exactly N-1 returned success and exactly one returned
\* daily_limit_exceeded.
C6_ParallelCallsNoOverAdmission ==
    \A c \in DOMAIN CLIENTS :
        LET T == CallersOf(c)
            N == Cardinality(T)
        IN  (/\ N >= 1
             /\ \A r \in T : req[r].pc = "done"
             /\ \A r, q \in T : req[r].day = req[q].day
             /\ CLIENTS[c].limit = N - 1)
                => /\ Cardinality(CallsOf(c, "ok")) = N - 1
                   /\ Cardinality(CallsOf(c, "daily_limit_exceeded")) = 1

\* C6 witness: every request called for the demo client, whose limit is one
\* less than their number, on one day, and all have returned
C6_Witness ==
    /\ CallersOf("demo") = Reqs
    /\ \A r \in Reqs : req[r].pc = "done" /\ req[r].day = req[1].day
    /\ CLIENTS["demo"].limit = NumReqs - 1
    /\ Cardinality(CallsOf("demo", "ok")) = NumReqs - 1
    /\ Cardinality(CallsOf("demo", "daily_limit_exceeded")) = 1

\* The calendar days check_and_consume_quota can find itself on
LocalDays == {today(t, tz) : t \in 0..MaxNow}

\* The calls for client c on day d that have consumed one unit: those that
\* returned success and the one, if any, that has stored its increment and
\* is about to return success
Consumed(c, d) ==
    {r \in Reqs : /\ req[r].cid = c
                  /\ req[r].day = d
                  /\ (req[r].ret = "ok" \/ req[r].pc = "save")}

\* C15: for every client with a limit L >= 0 and every day, the usage count
\* stored for that day is the number of check_and_consume_quota calls that
\* succeeded for that client on that day (so, whenever no call is inside the
\* locked block, the number of calls that returned success), and it is at
\* most L; and the step in which a call returns daily_limit_exceeded changes
\* no usage count.
C15_UsageCountsSuccesses ==
    /\ [](\A c \in DOMAIN CLIENTS, d \in LocalDays :
            CLIENTS[c].limit >= 0 =>
                /\ usage_get(CLIENTS[c].usage, d) = Cardinality(Consumed(c, d))
                /\ usage_get(CLIENTS[c].usage, d) <= CLIENTS[c].limit)
    /\ [][\A r \in Reqs :
            (req[r].ret = "none" /\ req'[r].ret = "daily_limit_exceeded") =>
                CLIENTS' = CLIENTS]_vars

\* Request r stands before a "with CLIENTS_LOCK" (the one of
\* get_client_id_by_key or the one of check_and_consume_quota) and cannot
\* enter it
WaitsForLock(r) ==
    req[r].pc \in {"lookup", "acquire"} /\ ~lock_is_free(CLIENTS_LOCK)

\* The client whose key request r presented
ClientOf(r) == get_client_id_by_key(CLIENTS, req[r].key)

\* C17: a check_and_consume_quota call waits for the lock only while a call
\* for the same client holds it: it never waits for a call (its write of
\* clients.json included) that is in progress for another client.
C17_OnlySameClientSerialized ==
    \A r \in Reqs :
        WaitsForLock(r) => req[CLIENTS_LOCK].cid = ClientOf(r)

(***************************************************************************)
(* Properties of the refresh cycle.                                        *)
(***************************************************************************)

\* What the sources in ok deliver: their well-formed domains
Delivered(ok) == UNION {remote_domains(sources[u]) : u \in ok}

Aggregated == lastCycle.who \in Refreshers /\ lastCycle.stage = "aggregated"

CycleDone == lastCycle.who # "none" /\ lastCycle.stage = "done"

\* C8: when some sources fail and at least one succeeds, the aggregation
\* still returns; the set it built holds every well-formed domain of every
\* source that answered and every entry of the local block list it read
\* (which is the list of before the cycle when no other writer came in
\* between); the count it returns is the size of that set, so at least the
\* number of distinct domains delivered; and, when the write did not fail,
\* the file holds that set, sorted, and the block set loaded from it into
\* memory holds the delivered domains and every entry of the earlier list
\* that reads back as itself.
C8_PartialFailureStillAggregates ==
    /\ (Aggregated /\ lastCycle.ok # {} /\ lastCycle.ok # Urls) =>
           /\ Delivered(lastCycle.ok) \subseteq lastCycle.domains
           /\ lastCycle.local \subseteq lastCycle.domains
           /\ lastCycle.count = Cardinality(lastCycle.domains)
           /\ lastCycle.count >= Cardinality(Delivered(lastCycle.ok))
           /\ ~lastCycle.disturbed =>
                 /\ load_local_blocklist(lastCycle.fileBefore)
                       \subseteq lastCycle.domains
                 /\ ~lastCycle.wfail =>
                       lastCycle.fileAtSave = saved_lines(lastCycle.domains)
    /\ (/\ CycleDone /\ lastCycle.who \in Refreshers
        /\ lastCycle.ok # {} /\ lastCycle.ok # Urls
        /\ ~lastCycle.wfail /\ ~lastCycle.disturbed) =>
           /\ Delivered(lastCycle.ok) \subseteq lastCycle.memAfter
           /\ {d \in load_local_blocklist(lastCycle.fileBefore) : local_line(d) = d}
                 \subseteq lastCycle.memAfter

\* The first source answered, the two others failed, the local list held an
\* entry of its own, and the aggregation returned both
C8_Witness ==
    /\ Aggregated
    /\ lastCycle.ok = {1}
    /\ ~lastCycle.wfail /\ ~lastCycle.disturbed
    /\ lastCycle.local = {"host"}
    /\ lastCycle.domains = {"host", "jsn.com"}
    /\ lastCycle.count = 2
    /\ lastCycle.fileAtSave = <<"host", "jsn.com">>

\* C9: a refresh cycle in which every source is unreachable (and nothing else
\* goes wrong) leaves the block set in memory and the domains of the block
\* list file as they were before the cycle.
C9_AllSourcesDownKeepsBlockSet ==
    (CycleDone /\ lastCycle.ok = {} /\ ~lastCycle.wfail /\ ~lastCycle.disturbed) =>
        /\ lastCycle.memAfter = lastCycle.memBefore
        /\ load_local_blocklist(lastCycle.fileAfter)
              = load_local_blocklist(lastCycle.fileBefore)

\* C10: two cycles of the same refresher in a row, each with every source
\* answering, no write failure and no other writer during or between them,
\* leave the same block set: in memory and as the domains of the file.
C10_AggregationIdempotent ==
    (/\ CycleDone
     /\ lastCycle.who \in Refreshers
     /\ lastCycle.clean
     /\ lastCycle.quiet
     /\ lastCycle.prev.clean) =>
        /\ lastCycle.memAfter = lastCycle.prev.memAfter
        /\ load_local_blocklist(lastCycle.fileAfter)
              = load_local_blocklist(lastCycle.prev.fileAfter)
        /\ BLOCKSET = lastCycle.prev.memAfter

\* Two clean cycles in a row have run over a local list with an entry of its own
C10_Witness ==
    /\ CycleDone
    /\ lastCycle.who \in Refreshers
    /\ lastCycle.clean /\ lastCycle.quiet /\ lastCycle.prev.clean
    /\ lastCycle.memAfter = {"blk.com", "host", "jsn.com", "new.org"}
    /\ lastCycle.fileBefore = lastCycle.fileAfter

(***************************************************************************)
(* Properties of the background cycle running next to /update-now.         *)
(***************************************************************************)

\* C11: the block set that a classify call reads (BLOCKSET, read under
\* BLOCKSET_LOCK) is never one that a refresher loaded from the block list
\* file while another refresher was in the middle of writing that file.
C11_NeverHalfWrittenBlockSet ==
    (/\ CycleDone
     /\ lastCycle.who \in Refreshers
     /\ blockset_lock_is_free(BLOCKSET_LOCK)
     /\ BLOCKSET = lastCycle.memAfter) => ~lastCycle.halfWritten

\* The steps of a refresh cycle that fetch a source, merge, or read or write
\* the block list file, named by the place the refresher is at before them
FileOrNetworkSteps == {"fetch", "load", "open", "write", "reload"}

\* C16: a refresher holds BLOCKSET_LOCK, the lock is_disposable_domain takes
\* to read the block set, only for the assignment to BLOCKSET: while it holds
\* the lock it has no fetch, no merge and no read or write of the block list
\* file still to do.
C16_LockHeldOnlyForSwap ==
    \A r \in Refreshers :
        BLOCKSET_LOCK = r => refr[r].pc \notin FileOrNetworkSteps

\* Refresher r has opened the block list file for writing in this cycle (it
\* is writing, or the write has ended or failed) and no other writer has
\* touched the file since the cycle began
Persisting(r) ==
    /\ refr[r].pc \in {"write", "saved"}
    /\ ~refr[r].disturbed

\* C18: at every point of a refresher's write of the block list file, and
\* after a write that failed, the file loads as the complete list of before
\* the cycle or as the complete new list; a crash or a failed write leaves no
\* empty or truncated list behind.
C18_FileIsOldOrNewList ==
    \A r \in Refreshers :
        Persisting(r) =>
            load_local_blocklist(blockFile) \in
                {load_local_blocklist(refr[r].fileBefore),
                 load_local_blocklist(saved_lines(refr[r].domains))}

\* C19: a refresh cycle in which the write of the block list file fails (and
\* no other writer touches the file) leaves in the block set in memory every
\* domain it held before the cycle: the block set is not replaced by what the
\* failed write left in the file.
C19_WriteFailureKeepsMemory ==
    (/\ CycleDone
     /\ lastCycle.who \in Refreshers
     /\ lastCycle.wfail
     /\ ~lastCycle.disturbed) =>
        lastCycle.memBefore \subseteq BLOCKSET

\* C20: whatever the block list file and the sources hold, every member of
\* the block set in memory, after the load at start-up and after every
\* refresh, is a non-empty string in lower case without an "@".
C20_BlockSetMembersAreDomains ==
    \A d \in BLOCKSET :
        /\ d # ""
        /\ Lower(d) = d
        /\ CountChar(d, "@") = 0

\* C22: the background loop never stops: every cycle, also one in which
\* every fetch fails or an exception comes up in the aggregation or in the
\* reload, ends in the sleep, and every sleep is followed by the start of
\* another cycle, so a cycle is started again and again; and BLOCKSET_LOCK is
\* never held for good, so is_disposable_domain can always go on.
C22_LoopNeverStops ==
    /\ []<>(refr["bg"].pc = "sleep")
    /\ []<>(refr["bg"].pc = "fetch")
    /\ (refr["bg"].pc = "sleep") ~> (refr["bg"].pc = "fetch")
    /\ (BLOCKSET_LOCK = "bg") ~> blockset_lock_is_free(BLOCKSET_LOCK)

\* After a cycle whose reload raised while the lock was held, the lock is
\* free and the next cycle has begun
C22_Witness ==
    /\ refr["bg"].pc = "fetch"
    /\ lastCycle.who = "bg"
    /\ lastCycle.stage = "raised"
    /\ lastCycle.at = "reload"
    /\ blockset_lock_is_free(BLOCKSET_LOCK)

\* C23: the block set only grows: a refresh cycle that runs alone and whose
\* write does not fail leaves in the block set every domain it held before
\* the cycle (every member that is a line load_local_blocklist reads back as
\* itself), whatever the sources deliver this time.
C23_BlockSetOnlyGrows ==
    (/\ CycleDone
     /\ lastCycle.who \in Refreshers
     /\ ~lastCycle.wfail
     /\ ~lastCycle.disturbed) =>
        \A d \in lastCycle.memBefore :
            local_line(d) = d => d \in BLOCKSET

(***************************************************************************)
(* Properties of the route /verify.                                        *)
(***************************************************************************)

QuotaErrors == {"missing_api_key", "invalid_api_key", "daily_limit_exceeded"}

\* C12: /verify runs the classification only for a request whose
\* check_and_consume_quota call returned success; a request without key, with
\* an unknown key or over its limit gets an answer that carries an error and
\* no verdict (status 401 or 429), while a classified request gets a verdict
\* and no error; and the step in which check_and_consume_quota returns an
\* error changes no usage count, in memory or in clients.json.
C12_ClassifyOnlyAfterQuota ==
    /\ [](lastCall.fn = "verify_route" =>
            /\ lastCall.classified <=> lastCall.ret = "ok"
            /\ lastCall.classified =>
                  /\ lastCall.status = 200
                  /\ "valid" \in DOMAIN lastCall.body
                  /\ "error" \notin DOMAIN lastCall.body
            /\ ~lastCall.classified =>
                  /\ lastCall.status \in {401, 429}
                  /\ "error" \in DOMAIN lastCall.body
                  /\ "valid" \notin DOMAIN lastCall.body
                  /\ lastCall.status = 429 <=> lastCall.ret = "daily_limit_exceeded")
    /\ [][\A r \in Reqs :
            (req[r].ret = "none" /\ req'[r].ret \in QuotaErrors) =>
                (CLIENTS' = CLIENTS /\ clientsFile' = clientsFile)]_vars

\* One request has been classified and the next one for the same client has
\* been turned away with 429
C12_Witness ==
    /\ lastCall.fn = "verify_route"
    /\ lastCall.ret = "daily_limit_exceeded"
    /\ lastCall.status = 429
    /\ \E q \in Reqs : req[q].pc = "answered" /\ req[q].ret = "ok"

\* C13: when a request to /update-now is answered, the count it returns is
\* the number of domains of the block set in memory at that moment.
C13_TriggerCountIsBlockSetSize ==
    (CycleDone /\ lastCycle.who = "update_now" /\ ~lastCycle.wfail) =>
        /\ BLOCKSET = lastCycle.memAfter
        /\ lastCycle.count = Cardinality(BLOCKSET)

(***************************************************************************)
(* Properties of the API gate.                                             *)
(***************************************************************************)

\* The requests for client c that api_entry accepted and whose log_usage ran
\* to its end
GateAccepted(c) ==
    {g \in GateReqs : gate[g].accepted /\ gate[g].client_name = c}

\* C24: when no request to /api/check is under way, the call counter that
\* client.json holds for every client is its initial value plus the number
\* of accepted requests for that client, in whatever order the threads ran,
\* and no client's record is lost or otherwise changed.
C24_GateCountsEveryCall ==
    (\A g \in GateReqs : gate[g].pc \in {"idle", "answered"}) =>
        /\ clientJson.whole
        /\ DOMAIN clientJson.data = GateClients
        /\ \A c \in GateClients :
              /\ clientJson.data[c].key = InitialClientJson[c].key
              /\ clientJson.data[c].calls =
                    InitialClientJson[c].calls + Cardinality(GateAccepted(c))

==============================================================================
